---- MODULE Spec2Model ----
(***************************************************************************)
(* Launch-session supervisor of src-tauri/src/app/gui.rs: the commands     *)
(* run_client and terminate over the shared slot                           *)
(* AppState.runner_instance : Arc<Mutex<Option<RunnerInstance>>>, and the  *)
(* construction of the LaunchingParameter record handed to the             *)
(* prelauncher.                                                            *)
(***************************************************************************)
EXTENDS Integers, Sequences, FiniteSets, TLC

\* ------------------------------------------------------------------ bounds

\* Number of concurrently invocable run_client calls (tauri command tasks).
NumTasks == 2

\* Largest host memory, in decimal megabytes, enumerated below (besides the
\* 16 GB host of the documentation).
MaxTotalMB == 100

\* Largest number of notifications the sink is followed for.
MaxEmitted == 3

Tasks == 1..NumTasks

\* Option<RunnerInstance>::None.  Some(RunnerInstance { terminator }) is
\* modelled by the id of the task whose oneshot channel the sender belongs to.
None == 0

\* ------------------------------------------------- unsigned 64-bit division

\* Decimal digits of a natural number, most significant first (<<>> for 0).
RECURSIVE Digits(_)
Digits(n) == IF n = 0 THEN <<>> ELSE Append(Digits(n \div 10), n % 10)

\* The value of a digit sequence (only applied to values below 2^31).
RECURSIVE DigitsValue(_)
DigitsValue(ds) ==
    IF ds = <<>> THEN 0
    ELSE 10 * DigitsValue(SubSeq(ds, 1, Len(ds) - 1)) + ds[Len(ds)]

\* A u64 byte count given as decimal digits: mb * 1000000 + rest.
U64Bytes(mb, rest) ==
    Digits(mb) \o << (rest \div 100000) % 10, (rest \div 10000) % 10,
                     (rest \div 1000) % 10, (rest \div 100) % 10,
                     (rest \div 10) % 10, rest % 10 >>

\* Long division of a digit sequence by a divisor d: the pair of quotient
\* digits and remainder after the digits ds have been consumed.
RECURSIVE LongDiv(_, _)
LongDiv(ds, d) ==
    IF ds = <<>> THEN [quot |-> <<>>, rem |-> 0]
    ELSE LET prev == LongDiv(SubSeq(ds, 1, Len(ds) - 1), d)
             cur  == 10 * prev.rem + ds[Len(ds)]
         IN  [quot |-> Append(prev.quot, cur \div d), rem |-> cur % d]

\* Variant of TotalMegabytes dividing by the binary megabyte (1024 * 1024).
TotalMebibytes(total_memory) == DigitsValue(LongDiv(total_memory, 1048576).quot)

\* sys.total_memory() / 1000000 (u64 integer division).
TotalMegabytes(total_memory) == DigitsValue(LongDiv(total_memory, 1000000).quot)

\* --------------------------------------------------- IEEE-754 binary64 model
\* A non-negative finite double is [bits, exp]: bits is a sequence of 0/1, most
\* significant first, of at most 53 significant bits; its value is
\* value(bits) * 2^exp.

\* Number of binary digits of a natural number below 2^30.
BitLength(n) == CHOOSE l \in 0..30 : n < 2^l /\ (l = 0 \/ 2^(l - 1) <= n)

\* Binary digits of a natural number, most significant first (<<>> for 0).
IntBits(n) ==
    LET l == BitLength(n) IN [i \in 1..l |-> (n \div 2^(l - i)) % 2]

\* The value of a bit sequence (only applied to values below 2^31).
RECURSIVE BitsValue(_)
BitsValue(b) ==
    IF Len(b) = 0 THEN 0
    ELSE IF Len(b) = 1 THEN b[1]
    ELSE LET h == Len(b) \div 2
         IN  BitsValue(SubSeq(b, 1, h)) * 2^(Len(b) - h)
                 + BitsValue(SubSeq(b, h + 1, Len(b)))

AnyOne(b) == \E i \in 1..Len(b) : b[i] = 1

StripZeros(b) ==
    IF ~AnyOne(b) THEN <<>>
    ELSE SubSeq(b, CHOOSE i \in 1..Len(b) :
                       b[i] = 1 /\ \A j \in 1..(i - 1) : b[j] = 0,
                Len(b))

\* b + 1 on a bit sequence (one bit longer when b is all ones).
Increment(b) ==
    IF \A i \in 1..Len(b) : b[i] = 1
    THEN <<1>> \o [i \in 1..Len(b) |-> 0]
    ELSE LET z == CHOOSE i \in 1..Len(b) :
                      b[i] = 0 /\ \A j \in (i + 1)..Len(b) : b[j] = 1
         IN  [i \in 1..Len(b) |-> IF i < z THEN b[i] ELSE IF i = z THEN 1 ELSE 0]

\* Round-to-nearest, ties-to-even, of value(bits) * 2^exp (plus a non-zero
\* tail below the last bit when sticky) to 53 significant bits.
RoundToDouble(bits, exp, sticky) ==
    LET b == StripZeros(bits)
    IN  IF Len(b) <= 53 THEN [bits |-> b, exp |-> exp]
        ELSE LET keep  == SubSeq(b, 1, 53)
                 guard == b[54]
                 tail  == sticky \/ AnyOne(SubSeq(b, 55, Len(b)))
                 e     == exp + Len(b) - 53
                 up    == guard = 1 /\ (tail \/ keep[53] = 1)
                 inc   == Increment(keep)
             IN  IF ~up THEN [bits |-> keep, exp |-> e]
                 ELSE IF Len(inc) = 54
                      THEN [bits |-> SubSeq(inc, 1, 53), exp |-> e + 1]
                      ELSE [bits |-> inc, exp |-> e]

\* The n-bit binary representation of a natural v < 2^n.
PadBits(v, n) == [i \in 1..n |-> (v \div 2^(n - i)) % 2]

\* The first k binary digits (k a multiple of 8) of the fraction r / d
\* (0 <= r < d < 2^23), and the remainder left after them: long division,
\* eight bits at a time.
RECURSIVE FractionBits(_, _, _)
FractionBits(r, d, k) ==
    IF k = 0 THEN [bits |-> <<>>, rem |-> r]
    ELSE LET rest == FractionBits((r * 256) % d, d, k - 8)
         IN  [bits |-> PadBits((r * 256) \div d, 8) \o rest.bits,
              rem  |-> rest.rem]

\* (n as f64) / (d as f64) for small naturals n, d: the correctly rounded
\* quotient.
DivDouble(n, d) ==
    LET frac == FractionBits(n % d, d, 64)
    IN  RoundToDouble(IntBits(n \div d) \o frac.bits, -64, frac.rem # 0)

\* b * m + carry for a bit sequence b and naturals carry <= m < 2^19: the low
\* Len(b) bits of the result and the carry out of them.  Schoolbook
\* multiplication, eleven bits of b at a time from the least significant end.
RECURSIVE MulBits(_, _, _)
MulBits(b, m, carry) ==
    IF Len(b) = 0 THEN [bits |-> <<>>, carry |-> carry]
    ELSE LET n    == IF Len(b) < 11 THEN Len(b) ELSE 11
             t    == m * BitsValue(SubSeq(b, Len(b) - n + 1, Len(b))) + carry
             rest == MulBits(SubSeq(b, 1, Len(b) - n), m, t \div 2^n)
         IN  [bits |-> rest.bits \o PadBits(t % 2^n, n), carry |-> rest.carry]

\* (m as f64) * q: m is below 2^53, so the conversion is exact and the
\* product is the exact product rounded once.
MulDouble(m, q) ==
    LET prod == MulBits(q.bits, m, 0)
    IN  RoundToDouble(IntBits(prod.carry) \o prod.bits, q.exp, FALSE)

\* f as i64 for a non-negative double below 2^31: truncation toward zero.
TruncToInt(f) ==
    IF f.exp >= 0 THEN BitsValue(f.bits \o [i \in 1..f.exp |-> 0])
    ELSE IF -f.exp >= Len(f.bits) THEN 0
    ELSE BitsValue(SubSeq(f.bits, 1, Len(f.bits) + f.exp))

\* ((sys.total_memory() / 1000000) as f64
\*      * (options.memory_percentage as f64 / 100.0)) as i64
AllocatedMemory(total_memory, memory_percentage) ==
    TruncToInt(MulDouble(TotalMegabytes(total_memory),
                         DivDouble(memory_percentage, 100)))

\* ------------------------------------------------------- run_client inputs

\* The three variants of minecraft::service::Account, with pairwise distinct
\* field values.
MsaAccount ==
    [kind |-> "MsaAccount",
     auth |-> [name |-> "Alex", uuid |-> "uuid-msa", token |-> "token-msa"]]

MojangAccount ==
    [kind |-> "MojangAccount", name |-> "Steve",
     token |-> "token-mojang", uuid |-> "uuid-mojang"]

OfflineAccount ==
    [kind |-> "OfflineAccount", name |-> "Player", uuid |-> "uuid-offline"]

Accounts == {MsaAccount, MojangAccount, OfflineAccount}

\* LauncherOptions values (the fields run_client reads).
LauncherOptions(percentages, paths, flags) ==
    [memory_percentage : percentages, custom_java_path : paths,
     keep_launcher_open : flags]

\* sys.total_memory() of a 16 GB host, in bytes.
SixteenGB == <<1, 6, 0, 0, 0, 0, 0, 0, 0, 0, 0>>

\* Values of sys.total_memory(), in bytes.
HostMemories ==
    {U64Bytes(mb, 0) : mb \in 0..MaxTotalMB}
        \cup {U64Bytes(mb, 999999) : mb \in {0, MaxTotalMB}}
        \cup {SixteenGB}

\* --------------------------------------------------- account resolution

\* Variant of ResolveAccount in which the offline arm reuses the "mojang"
\* label.
ResolveAccountSameLabel(account_data) ==
    CASE account_data.kind = "MsaAccount" ->
             [account_name |-> account_data.auth.name,
              uuid         |-> account_data.auth.uuid,
              token        |-> account_data.auth.token,
              user_type    |-> "msa"]
      [] account_data.kind = "MojangAccount" ->
             [account_name |-> account_data.name,
              uuid         |-> account_data.token,
              token        |-> account_data.uuid,
              user_type    |-> "mojang"]
      [] account_data.kind = "OfflineAccount" ->
             [account_name |-> account_data.name,
              uuid         |-> "-",
              token        |-> account_data.uuid,
              user_type    |-> "mojang"]

\* let (account_name, uuid, token, user_type) = match account_data { ... }:
\* each arm's tuple is bound positionally to (account_name, uuid, token,
\* user_type).
ResolveAccount(account_data) ==
    CASE account_data.kind = "MsaAccount" ->
             [account_name |-> account_data.auth.name,
              uuid         |-> account_data.auth.uuid,
              token        |-> account_data.auth.token,
              user_type    |-> "msa"]
      [] account_data.kind = "MojangAccount" ->
             [account_name |-> account_data.name,
              uuid         |-> account_data.token,
              token        |-> account_data.uuid,
              user_type    |-> "mojang"]
      [] account_data.kind = "OfflineAccount" ->
             [account_name |-> account_data.name,
              uuid         |-> "-",
              token        |-> account_data.uuid,
              user_type    |-> "legacy"]

\* Variant of CustomJavaPath that passes the configured path on as it is.
CustomJavaPathAlways(options) == <<options.custom_java_path>>

\* Option<String>: <<>> is None, <<s>> is Some(s).
CustomJavaPath(options) ==
    IF options.custom_java_path # "" THEN <<options.custom_java_path>> ELSE <<>>

\* let parameters = LaunchingParameter { ... }
LaunchingParameter(account_data, options, total_memory) ==
    LET resolved == ResolveAccount(account_data)
    IN  [memory             |-> AllocatedMemory(total_memory,
                                                options.memory_percentage),
         custom_java_path   |-> CustomJavaPath(options),
         auth_player_name   |-> resolved.account_name,
         auth_uuid          |-> resolved.uuid,
         auth_access_token  |-> resolved.token,
         auth_xuid          |-> "x",
         clientid           |-> "AZURE_CLIENT_ID",
         user_type          |-> resolved.user_type,
         keep_launcher_open |-> options.keep_launcher_open]

\* ------------------------------------------------------------------- state

VARIABLES
    runner_instance,   \* AppState.runner_instance: None or the stored sender
    poisoned,          \* whether the mutex around runner_instance is poisoned
    pc,                \* where each run_client call stands
    arguments,         \* <<>> or <<[account_data, options, total_memory]>>
    parameters,        \* <<>> or <<the call's LaunchingParameter>>
    terminator_rx,     \* the receiver half handed to prelauncher::launch
    result,            \* what each task's last run_client call returned
    terminate_result,  \* what the last terminate call returned
    window_open,       \* whether Window::emit still succeeds
    sink,              \* the notifications emitted to the window, in order
    stdout_call,       \* <<>> or <<the last handle_stdout call and its outcome>>
    stderr_call,       \* <<>> or <<the last handle_stderr call and its outcome>>
    progress_call      \* <<>> or <<the last handle_progress call and its outcome>>

VARIABLE
    guard              \* the holder of the slot's mutex: None, a task, or "terminate"

\* The state of the event bridge.
bridge_vars == <<window_open, sink, stdout_call, stderr_call, progress_call>>

vars == <<runner_instance, poisoned, pc, arguments, parameters, terminator_rx,
          result, terminate_result, guard, bridge_vars>>

\* Result<(), String> values of the two commands.
OK == "Ok(())"
ErrAlreadyRunning == "client is already running"
ErrLock == "unable to lock runner instance"
ErrManifest == "unable to request launch manifest"
ErrLaunch == "failed to launch client"
Panicked == "panicked"

TypeOK ==
    /\ runner_instance \in Tasks \cup {None}
    /\ poisoned \in BOOLEAN
    /\ pc \in [Tasks -> {"idle", "fetching", "launching", "returned"}]
    /\ \A t \in Tasks : Len(arguments[t]) = Len(parameters[t])
    /\ \A t \in Tasks : Len(arguments[t]) = IF pc[t] = "idle" THEN 0 ELSE 1
    /\ terminator_rx \in [Tasks -> {"none", "open", "signalled", "closed"}]
    /\ result \in [Tasks -> {"none", "pending", OK, ErrAlreadyRunning, ErrLock,
                             ErrManifest, ErrLaunch}]
    /\ terminate_result \in {"none", OK, ErrLock, Panicked}
    /\ guard \in Tasks \cup {None, "terminate"}
    /\ window_open \in BOOLEAN
    /\ Len(sink) <= MaxEmitted
    /\ \A i \in 1..Len(sink) :
           sink[i].event \in {"process-output", "progress-update"}
    /\ Len(stdout_call) <= 1 /\ Len(stderr_call) <= 1 /\ Len(progress_call) <= 1

\* .manage(AppState { runner_instance: Arc::new(Mutex::new(None)) })
Init ==
    /\ runner_instance = None
    /\ poisoned = FALSE
    /\ pc = [t \in Tasks |-> "idle"]
    /\ arguments = [t \in Tasks |-> <<>>]
    /\ parameters = [t \in Tasks |-> <<>>]
    /\ terminator_rx = [t \in Tasks |-> "none"]
    /\ result = [t \in Tasks |-> "none"]
    /\ terminate_result = "none"
    /\ guard = None
    /\ window_open = TRUE
    /\ sink = <<>>
    /\ stdout_call = <<>>
    /\ stderr_call = <<>>
    /\ progress_call = <<>>

\* Dropping the Option<RunnerInstance> value old: a stored sender that is
\* dropped unsent closes its channel, which a live receiver observes.
DropSender(rx, old) ==
    IF old # None /\ rx[old] = "open" THEN [rx EXCEPT ![old] = "closed"] ELSE rx

\* The call of task t returns r: its locals are dropped.
Return(t, r) ==
    /\ pc' = [pc EXCEPT ![t] = "idle"]
    /\ arguments' = [arguments EXCEPT ![t] = <<>>]
    /\ parameters' = [parameters EXCEPT ![t] = <<>>]
    /\ result' = [result EXCEPT ![t] = r]

\* lock() returns once no guard of the mutex is alive (a poisoned mutex is
\* locked all the same, and the guard handed out inside the error).
Lock == guard = None

\* The guard is a temporary of the statement, or a local of a function that
\* returns in the step: it is dropped when the step ends.
Unlock == guard' = None

\* ----------------------------------------------------------------- actions

\* Variant of RunClient without the is_some() test of the slot.
RunClientNoCheck(t, account_data, options, total_memory) ==
    /\ Lock
    /\ pc[t] = "idle"
    /\ IF poisoned
       THEN Return(t, ErrLock)
       ELSE /\ pc' = [pc EXCEPT ![t] = "fetching"]
            /\ arguments' = [arguments EXCEPT ![t] =
                   << [account_data |-> account_data, options |-> options,
                       total_memory |-> total_memory] >>]
            /\ parameters' = [parameters EXCEPT ![t] =
                   << LaunchingParameter(account_data, options, total_memory) >>]
            /\ result' = [result EXCEPT ![t] = "pending"]
    /\ UNCHANGED <<runner_instance, poisoned, terminator_rx, terminate_result>>
    /\ Unlock
    /\ UNCHANGED bridge_vars

\* Variant of RunClient that binds the guard to a local, which lives on across
\* the suspension.
RunClientHoldsGuard(t, account_data, options, total_memory) ==
    /\ pc[t] = "idle"
    /\ Lock
    /\ IF poisoned
       THEN Return(t, ErrLock)
       ELSE IF runner_instance # None
       THEN Return(t, ErrAlreadyRunning)
       ELSE /\ pc' = [pc EXCEPT ![t] = "fetching"]
            /\ arguments' = [arguments EXCEPT ![t] =
                   << [account_data |-> account_data, options |-> options,
                       total_memory |-> total_memory] >>]
            /\ parameters' = [parameters EXCEPT ![t] =
                   << LaunchingParameter(account_data, options, total_memory) >>]
            /\ result' = [result EXCEPT ![t] = "pending"]
    /\ UNCHANGED <<runner_instance, poisoned, terminator_rx, terminate_result>>
    /\ guard' = IF pc'[t] = "fetching" THEN t ELSE None
    /\ UNCHANGED bridge_vars

\* run_client up to its first suspension: the parameters are built, then the
\* slot is inspected under the lock.
RunClient(t, account_data, options, total_memory) ==
    /\ Lock
    /\ pc[t] = "idle"
    /\ IF poisoned
       THEN Return(t, ErrLock)
       ELSE IF runner_instance # None
       THEN Return(t, ErrAlreadyRunning)
       ELSE /\ pc' = [pc EXCEPT ![t] = "fetching"]
            /\ arguments' = [arguments EXCEPT ![t] =
                   << [account_data |-> account_data, options |-> options,
                       total_memory |-> total_memory] >>]
            /\ parameters' = [parameters EXCEPT ![t] =
                   << LaunchingParameter(account_data, options, total_memory) >>]
            /\ result' = [result EXCEPT ![t] = "pending"]
    /\ UNCHANGED <<runner_instance, poisoned, terminator_rx, terminate_result>>
    /\ Unlock
    /\ UNCHANGED bridge_vars

\* The frontend invokes run_client on the idle task t with some account,
\* options and host memory reading out of the given sets.
Invoke(t, accounts, options_set, memories) ==
    /\ pc[t] = "idle"
    /\ \E account_data \in accounts, options \in options_set,
          total_memory \in memories :
           RunClient(t, account_data, options, total_memory)

\* ApiEndpoints::launch_manifest(build_id).await fails.
LaunchManifestFails(t) ==
    /\ pc[t] = "fetching"
    /\ Return(t, ErrManifest)
    /\ UNCHANGED <<runner_instance, poisoned, terminator_rx, terminate_result>>
    /\ UNCHANGED guard
    /\ UNCHANGED bridge_vars

\* The manifest arrives; a fresh oneshot channel is made and its sender
\* stored in the slot, replacing (and dropping) whatever the slot held; the
\* receiver goes to prelauncher::launch.
BeginLaunch(t) ==
    /\ Lock
    /\ pc[t] = "fetching"
    /\ IF poisoned
       THEN /\ Return(t, ErrLock)
            /\ UNCHANGED <<runner_instance, terminator_rx>>
       ELSE /\ runner_instance' = t
            /\ terminator_rx' =
                   [DropSender(terminator_rx, runner_instance) EXCEPT ![t] = "open"]
            /\ pc' = [pc EXCEPT ![t] = "launching"]
            /\ UNCHANGED <<arguments, parameters, result>>
    /\ UNCHANGED <<poisoned, terminate_result>>
    /\ Unlock
    /\ UNCHANGED bridge_vars

\* prelauncher::launch(...).await completes with Err: the ? operator returns
\* at once.  The receiver, owned by the completed future, is dropped.
LaunchFails(t) ==
    /\ pc[t] = "launching"
    /\ terminator_rx' = [terminator_rx EXCEPT ![t] = "none"]
    /\ Return(t, ErrLaunch)
    /\ UNCHANGED <<runner_instance, poisoned, terminate_result>>
    /\ UNCHANGED guard
    /\ UNCHANGED bridge_vars

\* prelauncher::launch(...).await completes with Ok.
LaunchReturns(t) ==
    /\ pc[t] = "launching"
    /\ terminator_rx' = [terminator_rx EXCEPT ![t] = "none"]
    /\ pc' = [pc EXCEPT ![t] = "returned"]
    /\ UNCHANGED <<runner_instance, poisoned, arguments, parameters, result,
                   terminate_result>>
    /\ UNCHANGED guard
    /\ UNCHANGED bridge_vars

\* *runner_instance.lock()? = None; Ok(())
ClearRunnerInstance(t) ==
    /\ Lock
    /\ pc[t] = "returned"
    /\ IF poisoned
       THEN /\ Return(t, ErrLock)
            /\ UNCHANGED <<runner_instance, terminator_rx>>
       ELSE /\ runner_instance' = None
            /\ terminator_rx' = DropSender(terminator_rx, runner_instance)
            /\ Return(t, OK)
    /\ UNCHANGED <<poisoned, terminate_result>>
    /\ Unlock
    /\ UNCHANGED bridge_vars

\* Variant of Terminate that fires the signal but leaves the slot occupied.
TerminateLeavesSender ==
    /\ Lock
    /\ IF poisoned
       THEN /\ terminate_result' = ErrLock
            /\ UNCHANGED <<terminator_rx, poisoned>>
       ELSE IF runner_instance = None
       THEN /\ terminate_result' = OK
            /\ UNCHANGED <<terminator_rx, poisoned>>
       ELSE IF terminator_rx[runner_instance] = "open"
       THEN /\ terminator_rx' =
                   [terminator_rx EXCEPT ![runner_instance] = "signalled"]
            /\ terminate_result' = OK
            /\ UNCHANGED poisoned
       ELSE /\ poisoned' = TRUE
            /\ terminate_result' = Panicked
            /\ UNCHANGED terminator_rx
    /\ UNCHANGED <<runner_instance, pc, arguments, parameters, result>>
    /\ Unlock
    /\ UNCHANGED bridge_vars

\* The terminate command: the whole body runs under the lock.  send(())
\* fails when the receiver is gone and unwrap() then panics with the guard
\* alive, which poisons the mutex.
Terminate ==
    /\ Lock
    /\ IF poisoned
       THEN /\ terminate_result' = ErrLock
            /\ UNCHANGED <<runner_instance, terminator_rx, poisoned>>
       ELSE IF runner_instance = None
       THEN /\ terminate_result' = OK
            /\ UNCHANGED <<runner_instance, terminator_rx, poisoned>>
       ELSE /\ runner_instance' = None
            /\ IF terminator_rx[runner_instance] = "open"
               THEN /\ terminator_rx' =
                           [terminator_rx EXCEPT ![runner_instance] = "signalled"]
                    /\ terminate_result' = OK
                    /\ UNCHANGED poisoned
               ELSE /\ poisoned' = TRUE
                    /\ terminate_result' = Panicked
                    /\ UNCHANGED terminator_rx
    /\ UNCHANGED <<pc, arguments, parameters, result>>
    /\ Unlock
    /\ UNCHANGED bridge_vars

\* The options and host memory the supervisor is exercised with.
DefaultOptions == LauncherOptions({50}, {""}, {FALSE})

Next ==
    \/ \E t \in Tasks : Invoke(t, Accounts, DefaultOptions, {SixteenGB})
    \/ \E t \in Tasks : LaunchManifestFails(t)
    \/ \E t \in Tasks : BeginLaunch(t)
    \/ \E t \in Tasks : LaunchFails(t)
    \/ \E t \in Tasks : LaunchReturns(t)
    \/ \E t \in Tasks : ClearRunnerInstance(t)
    \/ Terminate

Spec == Init /\ [][Next]_vars

\* Parameter construction over every percentage, both kinds of runtime path
\* and the enumerated host memories, by a single caller whose manifest
\* request fails.
AllOptions == LauncherOptions(0..100, {"", "/usr/bin/java"}, BOOLEAN)

NextParams ==
    \/ Invoke(1, {OfflineAccount}, AllOptions, HostMemories)
    \/ LaunchManifestFails(1)

SpecParams == Init /\ [][NextParams]_vars

\* ------------------------------------------------------------ event bridge

\* Well-formed chunks handed to the output handlers, of one to four bytes per
\* character, each with the text it encodes (as code points): U+00E9, U+20AC
\* followed by a line feed, U+1F600.
ValidTexts ==
    { [bytes |-> <<195, 169>>, text |-> <<233>>],
      [bytes |-> <<226, 130, 172, 10>>, text |-> <<8364, 10>>],
      [bytes |-> <<240, 159, 152, 128>>, text |-> <<128512>>] }

ValidChunks == { v.bytes : v \in ValidTexts }

\* Chunks that are not UTF-8: a stray byte, a valid prefix followed by a
\* truncated sequence, an overlong encoding, an encoded surrogate.
InvalidChunks ==
    { <<255>>, <<104, 195>>, <<192, 128>>, <<237, 160, 128>> }

Chunks == ValidChunks \cup InvalidChunks

\* The text a well-formed chunk encodes.
TextOf(data) == (CHOOSE v \in ValidTexts : v.bytes = data).text

\* ProgressUpdate values (opaque to the handlers).
ProgressUpdates ==
    { [phase |-> "download", done |-> 1, total |-> 2],
      [phase |-> "launch", done |-> 0, total |-> 0] }

\* A continuation byte 10xxxxxx at position i of b.
Continuation(b, i) == i <= Len(b) /\ b[i] \in 128..191

\* The character encoded at position i of b: its width in bytes (0 when the
\* bytes at i are no well-formed UTF-8 sequence) and its code point.
DecodeChar(b, i) ==
    LET b1 == b[i]
        b2 == b[i + 1]
        b3 == b[i + 2]
        b4 == b[i + 3]
        malformed == [width |-> 0, cp |-> 0]
    IN  IF b1 < 128 THEN [width |-> 1, cp |-> b1]
        ELSE IF b1 \in 194..223
        THEN IF Continuation(b, i + 1)
             THEN [width |-> 2, cp |-> (b1 - 192) * 64 + (b2 - 128)]
             ELSE malformed
        ELSE IF b1 \in 224..239
        THEN IF /\ Continuation(b, i + 1) /\ Continuation(b, i + 2)
                /\ b1 = 224 => b2 >= 160
                /\ b1 = 237 => b2 <= 159
             THEN [width |-> 3,
                   cp |-> (b1 - 224) * 4096 + (b2 - 128) * 64 + (b3 - 128)]
             ELSE malformed
        ELSE IF b1 \in 240..244
        THEN IF /\ Continuation(b, i + 1) /\ Continuation(b, i + 2)
                /\ Continuation(b, i + 3)
                /\ b1 = 240 => b2 >= 144
                /\ b1 = 244 => b2 <= 143
             THEN [width |-> 4,
                   cp |-> (b1 - 240) * 262144 + (b2 - 128) * 4096
                              + (b3 - 128) * 64 + (b4 - 128)]
             ELSE malformed
        ELSE malformed

\* The decoding of the bytes of b from position i on.
RECURSIVE DecodeFrom(_, _)
DecodeFrom(b, i) ==
    IF i > Len(b) THEN [ok |-> TRUE, text |-> <<>>]
    ELSE LET c == DecodeChar(b, i)
         IN  IF c.width = 0 THEN [ok |-> FALSE, text |-> <<>>]
             ELSE LET rest == DecodeFrom(b, i + c.width)
                  IN  IF rest.ok
                      THEN [ok |-> TRUE, text |-> <<c.cp>> \o rest.text]
                      ELSE rest

\* Variant of FromUtf8 that replaces malformed bytes by U+FFFD and never fails.
RECURSIVE LossyFrom(_, _)
LossyFrom(b, i) ==
    IF i > Len(b) THEN <<>>
    ELSE LET c == DecodeChar(b, i)
         IN  IF c.width = 0 THEN <<65533>> \o LossyFrom(b, i + 1)
             ELSE <<c.cp>> \o LossyFrom(b, i + c.width)

FromUtf8Lossy(data) == [ok |-> TRUE, text |-> LossyFrom(data, 1)]

\* String::from_utf8(data.to_vec()): the text as its sequence of code points,
\* or the failure.
FromUtf8(data) == DecodeFrom(data, 1)

\* anyhow::Result<()> values of the handlers.
ErrUtf8 == "FromUtf8Error"
ErrEmit == "tauri::Error"

\* What a handler call did: its result and the notifications it emitted.
Outcome(r, emitted) == [result |-> r, emitted |-> emitted]

\* window.lock().unwrap().emit("process-output", String::from_utf8(..)?)?
\* in handle_stdout: the argument is evaluated, and may return, before emit
\* is called.
HandleStdoutOutcome(open, data) ==
    LET decoded == FromUtf8(data)
    IN  IF ~decoded.ok THEN Outcome(ErrUtf8, <<>>)
        ELSE IF ~open THEN Outcome(ErrEmit, <<>>)
        ELSE Outcome(OK, << [event |-> "process-output",
                             payload |-> decoded.text] >>)

\* Variant of HandleStderrOutcome that emits on a stream of its own.
HandleStderrOwnStream(open, data) ==
    LET decoded == FromUtf8(data)
    IN  IF ~decoded.ok THEN Outcome(ErrUtf8, <<>>)
        ELSE IF ~open THEN Outcome(ErrEmit, <<>>)
        ELSE Outcome(OK, << [event |-> "process-error",
                             payload |-> decoded.text] >>)

\* The same statement in handle_stderr.
HandleStderrOutcome(open, data) ==
    LET decoded == FromUtf8(data)
    IN  IF ~decoded.ok THEN Outcome(ErrUtf8, <<>>)
        ELSE IF ~open THEN Outcome(ErrEmit, <<>>)
        ELSE Outcome(OK, << [event |-> "process-output",
                             payload |-> decoded.text] >>)

\* window.lock().unwrap().emit("progress-update", progress_update)? in
\* handle_progress.
HandleProgressOutcome(open, progress_update) ==
    IF ~open THEN Outcome(ErrEmit, <<>>)
    ELSE Outcome(OK, << [event |-> "progress-update",
                         payload |-> progress_update] >>)

\* The record kept of a handler call.
CallRecord(open, input, outcome) ==
    << [open |-> open, input |-> input, before |-> Len(sink),
        result |-> outcome.result, emitted |-> outcome.emitted] >>

supervisor_vars == <<runner_instance, poisoned, pc, arguments, parameters,
                     terminator_rx, result, terminate_result, guard>>

\* The prelauncher calls on_stdout with a chunk of the process's output.
HandleStdout(data) ==
    /\ Len(sink) < MaxEmitted
    /\ LET outcome == HandleStdoutOutcome(window_open, data)
       IN  /\ sink' = sink \o outcome.emitted
           /\ stdout_call' = CallRecord(window_open, data, outcome)
    /\ UNCHANGED <<window_open, stderr_call, progress_call, supervisor_vars>>

\* The prelauncher calls on_stderr.
HandleStderr(data) ==
    /\ Len(sink) < MaxEmitted
    /\ LET outcome == HandleStderrOutcome(window_open, data)
       IN  /\ sink' = sink \o outcome.emitted
           /\ stderr_call' = CallRecord(window_open, data, outcome)
    /\ UNCHANGED <<window_open, stdout_call, progress_call, supervisor_vars>>

\* The prelauncher calls on_progress.
HandleProgress(progress_update) ==
    /\ Len(sink) < MaxEmitted
    /\ LET outcome == HandleProgressOutcome(window_open, progress_update)
       IN  /\ sink' = sink \o outcome.emitted
           /\ progress_call' = CallRecord(window_open, progress_update, outcome)
    /\ UNCHANGED <<window_open, stdout_call, stderr_call, supervisor_vars>>

\* The window goes away: emit fails from now on.
CloseWindow ==
    /\ window_open
    /\ window_open' = FALSE
    /\ UNCHANGED <<sink, stdout_call, stderr_call, progress_call,
                   supervisor_vars>>

\* The event bridge on its own, driven by the callbacks of a launch.
NextEvents ==
    \/ \E data \in Chunks : HandleStdout(data)
    \/ \E data \in Chunks : HandleStderr(data)
    \/ \E progress_update \in ProgressUpdates : HandleProgress(progress_update)
    \/ CloseWindow

SpecEvents == Init /\ [][NextEvents]_vars

\* ================================================================ properties

\* Task t is between the start and the return of a run_client call.
InCall(t) == pc[t] # "idle"

\* A run_client call of task t starts in this step (it may return at once).
Called(t) == pc[t] = "idle" /\ (pc'[t] # "idle" \/ result'[t] # result[t])

\* A terminate call takes effect in this step.
Terminated ==
    terminate_result' # terminate_result \/ poisoned' # poisoned
        \/ (runner_instance # None /\ runner_instance' = None
               /\ pc' = pc /\ result' = result)

\* The supervisor is Idle and usable, and no call is under way.
Quiescent ==
    /\ runner_instance = None
    /\ ~poisoned
    /\ \A t \in Tasks : pc[t] = "idle"

\* C1: at most one launch is in flight at any instant (no two run_client
\* calls both pass the emptiness test and both reach the prelauncher).
AtMostOneLaunchInFlight ==
    Cardinality({t \in Tasks : pc[t] = "launching"}) <= 1

\* C2: a run_client call that populated the slot has released it by the time
\* it returns: the slot never holds the sender of a call that has returned.
SlotReleasedOnReturn ==
    \A t \in Tasks : runner_instance = t => InCall(t)

\* C3: while a launch that was sent the cancellation signal is still
\* executing, no run_client call gets past the "already running" test.
NoLaunchWhileCancelledRuns ==
    [][\A t, u \in Tasks :
          (pc[t] = "launching" /\ terminator_rx[t] = "signalled" /\ Called(u))
              => (pc'[u] = "idle" /\ result'[u] = ErrAlreadyRunning)]_vars

\* C4: terminate never panics, and the guard is never left unusable.
TerminateNeverPanics == terminate_result # Panicked /\ ~poisoned

\* C5: a run_client call that finds the slot occupied returns the "already
\* running" error at once: it neither requests the manifest nor reaches the
\* prelauncher, and the slot and every channel are left as they were.
RejectedWhenOccupied ==
    [][\A t \in Tasks :
          (Called(t) /\ runner_instance # None)
              => /\ pc'[t] = "idle"
                 /\ result'[t] = ErrAlreadyRunning
                 /\ parameters'[t] = <<>>
                 /\ UNCHANGED <<runner_instance, terminator_rx, poisoned>>]_vars

\* C5 witness: a call was rejected while another task's launch owns the slot.
RejectedWhileLaunching ==
    \E t, u \in Tasks :
        /\ result[t] = ErrAlreadyRunning
        /\ pc[t] = "idle"
        /\ pc[u] = "launching"
        /\ runner_instance = u

\* C6: terminate called while the slot is empty returns success, fires no
\* signal and changes nothing.
TerminateWhenIdleIsNoOp ==
    [][(runner_instance = None /\ Terminated)
          => /\ terminate_result' = OK
             /\ UNCHANGED <<runner_instance, terminator_rx, poisoned>>]_vars

\* The states of the end-to-end scenario, for the launch of task t.
SessionBegun(t) ==
    /\ pc[t] = "launching"
    /\ runner_instance = t
    /\ terminator_rx[t] = "open"
    /\ ~poisoned
    /\ \A u \in Tasks \ {t} : pc[u] = "idle"

SessionCancelled(t) ==
    /\ pc[t] \in {"launching", "returned"}
    /\ pc[t] = "launching" => terminator_rx[t] = "signalled"
    /\ runner_instance = None
    /\ ~poisoned
    /\ terminate_result = OK
    /\ \A u \in Tasks \ {t} : pc[u] = "idle"

AccountOf(t) == arguments[t][1].account_data
ParametersOf(t) == parameters[t][1]

\* C8: the access token and subject id of the launch parameters are the
\* account's own (for the offline account: its subject id and the
\* placeholder token "-").
AccountRolesPreserved ==
    \A t \in Tasks :
        InCall(t) =>
            CASE AccountOf(t).kind = "MsaAccount" ->
                     /\ ParametersOf(t).auth_access_token = AccountOf(t).auth.token
                     /\ ParametersOf(t).auth_uuid = AccountOf(t).auth.uuid
              [] AccountOf(t).kind = "MojangAccount" ->
                     /\ ParametersOf(t).auth_access_token = AccountOf(t).token
                     /\ ParametersOf(t).auth_uuid = AccountOf(t).uuid
              [] AccountOf(t).kind = "OfflineAccount" ->
                     /\ ParametersOf(t).auth_access_token = "-"
                     /\ ParametersOf(t).auth_uuid = AccountOf(t).uuid

\* C9: every account variant resolves, equal inputs give equal parameters,
\* and calls made with different variants carry different account-kind labels.
AccountKindsDistinct ==
    \A t, u \in Tasks :
        (InCall(t) /\ InCall(u)) =>
            /\ Len(parameters[t]) = 1
            /\ ParametersOf(t).user_type \in {"msa", "mojang", "legacy"}
            /\ arguments[t] = arguments[u] => parameters[t] = parameters[u]
            /\ AccountOf(t).kind # AccountOf(u).kind
                   => ParametersOf(t).user_type # ParametersOf(u).user_type

\* C9 witness: two concurrent calls are under way with different variants.
TwoVariantsResolved ==
    \E t, u \in Tasks :
        /\ InCall(t) /\ InCall(u)
        /\ AccountOf(t).kind = "MojangAccount"
        /\ AccountOf(u).kind = "OfflineAccount"

\* The host memory, in whole decimal megabytes, and the percentage handed to
\* the call of task t, read off the enumerated inputs.
HostMB(t) ==
    CHOOSE mb \in (0..MaxTotalMB) \cup {16000} :
        \E rest \in {0, 999999} :
            arguments[t][1].total_memory = U64Bytes(mb, rest)
PercentageOf(t) == arguments[t][1].options.memory_percentage

\* floor(floor(M / 1,000,000) * p / 100) in exact arithmetic.
ExactShare(t) == (HostMB(t) * PercentageOf(t)) \div 100

\* C10 as stated: the allocated memory is the exact share, truncated.
MemoryIsExactShare ==
    \A t \in Tasks : InCall(t) => ParametersOf(t).memory = ExactShare(t)

\* C10 as amended: the allocated memory is the exact share or one megabyte
\* less; it is one less only when the share is a whole number of megabytes,
\* and never for p = 0, 50 or 100 (so 16 GB at 50 % gives 8000).
MemoryWithinOneOfShare ==
    \A t \in Tasks :
        InCall(t) =>
            /\ ParametersOf(t).memory \in {ExactShare(t) - 1, ExactShare(t)}
            /\ (HostMB(t) * PercentageOf(t)) % 100 # 0
                   => ParametersOf(t).memory = ExactShare(t)
            /\ PercentageOf(t) \in {0, 50, 100}
                   => ParametersOf(t).memory = ExactShare(t)
            /\ (HostMB(t) = 16000 /\ PercentageOf(t) = 50)
                   => ParametersOf(t).memory = 8000

\* C10 witness: 29 % of a 100 MB host is allocated as 28 MB.
MemoryOneBelowShare ==
    \E t \in Tasks :
        /\ InCall(t)
        /\ HostMB(t) = 100
        /\ PercentageOf(t) = 29
        /\ ParametersOf(t).memory = 28

\* ------------------------------------------------------------ event bridge

ProcessOutput(text) == [event |-> "process-output", payload |-> text]

\* The chunk was refused: an encoding error, and the sink received nothing.
Refused(call) ==
    /\ call.result = ErrUtf8
    /\ sink' = sink

\* The chunk was forwarded: the sink received exactly one notification, which
\* carries the text the chunk encodes.
ForwardedOnce(call) ==
    /\ call.result = OK
    /\ sink' = Append(sink, ProcessOutput(TextOf(call.input)))

\* The sink was gone: a sink error, and nothing received.
SinkFailed(call) ==
    /\ call.result = ErrEmit
    /\ sink' = sink

\* A step that changes the record old of an output handler into new is a call
\* of that handler in the current state.
OutputCall(old, new) ==
    /\ new # old
    /\ new[1].before = Len(sink)
    /\ new[1].open = window_open

\* C11 as stated: an output handler given a chunk that is not UTF-8 returns an
\* error and the sink receives nothing; given a well-formed chunk, the sink
\* receives exactly one notification, carrying the decoded text.
ValidChunkAlwaysEmitsOnce ==
    [][/\ OutputCall(stdout_call, stdout_call') =>
              IF stdout_call'[1].input \in InvalidChunks
              THEN Refused(stdout_call'[1])
              ELSE ForwardedOnce(stdout_call'[1])
       /\ OutputCall(stderr_call, stderr_call') =>
              IF stderr_call'[1].input \in InvalidChunks
              THEN Refused(stderr_call'[1])
              ELSE ForwardedOnce(stderr_call'[1])]_vars

\* What C11 requires of a call of an output handler once the failure of the
\* sink is accounted for.
ChunkHandled(call) ==
    IF call.input \in InvalidChunks THEN Refused(call)
    ELSE IF call.open THEN ForwardedOnce(call)
    ELSE SinkFailed(call)

\* C11, amended: an output handler given a chunk that is not UTF-8 returns an
\* encoding error and the sink receives nothing, whatever the state of the
\* window; given a well-formed chunk while the window accepts events, the sink
\* receives exactly one notification, carrying the decoded text; given a
\* well-formed chunk once emit fails, the handler returns the sink's error and
\* the sink receives nothing.
ChunkRefusedOrEmittedOnce ==
    [][/\ OutputCall(stdout_call, stdout_call') => ChunkHandled(stdout_call'[1])
       /\ OutputCall(stderr_call, stderr_call') => ChunkHandled(stderr_call'[1])
       /\ (stdout_call' = stdout_call /\ stderr_call' = stderr_call
               /\ progress_call' = progress_call) => sink' = sink]_vars

\* C11 witness: stdout refused a truncated sequence without emitting, and
\* stderr then forwarded a four-byte character as one notification.
RefusedThenForwarded ==
    /\ stdout_call # <<>> /\ stderr_call # <<>>
    /\ stdout_call[1].input = <<104, 195>>
    /\ stdout_call[1].result = ErrUtf8
    /\ stderr_call[1].input = <<240, 159, 152, 128>>
    /\ stderr_call[1].result = OK
    /\ sink = << ProcessOutput(<<128512>>) >>

\* The recorded calls of a handler.
Range(calls) == { calls[i] : i \in 1..Len(calls) }

\* The notifications a recorded call emitted are in the sink, where the call
\* found its end.
InSink(call) ==
    /\ call.before + Len(call.emitted) <= Len(sink)
    /\ SubSeq(sink, call.before + 1, call.before + Len(call.emitted))
           = call.emitted

\* C12: a call of the stdout handler and a call of the stderr handler with the
\* same chunk and the same state of the window return the same result and
\* emit the same notifications, all of them on "process-output"; a progress
\* update is emitted only on "progress-update", with the update itself as
\* payload, and is emitted whenever the window accepts events.
OutputHandlersAgree ==
    /\ \A out \in Range(stdout_call), err \in Range(stderr_call) :
           (out.input = err.input /\ out.open = err.open) =>
               /\ out.result = err.result
               /\ out.emitted = err.emitted
    /\ \A call \in Range(stdout_call) \cup Range(stderr_call) :
           /\ InSink(call)
           /\ \A i \in 1..Len(call.emitted) :
                  call.emitted[i].event = "process-output"
    /\ \A call \in Range(progress_call) :
           /\ InSink(call)
           /\ call.emitted = IF call.open
                             THEN << [event |-> "progress-update",
                                      payload |-> call.input] >>
                             ELSE <<>>
           /\ call.result = IF call.open THEN OK ELSE ErrEmit

\* C12 witness: both output handlers forwarded the same chunk as the same
\* notification, and a progress update went to its own stream.
SameChunkOnBothHandlers ==
    /\ stdout_call # <<>> /\ stderr_call # <<>> /\ progress_call # <<>>
    /\ stdout_call[1].input = <<195, 169>>
    /\ stderr_call[1].input = <<195, 169>>
    /\ progress_call[1].input.phase = "download"
    /\ sink = << ProcessOutput(<<233>>),
                 [event |-> "progress-update",
                  payload |-> progress_call[1].input],
                 ProcessOutput(<<233>>) >>

\* ------------------------------------------------------------ runtime path

\* The configured custom runtime path of t's call.
ConfiguredPath(t) == arguments[t][1].options.custom_java_path

\* C13: the runtime path of the launch parameters is absent exactly when the
\* configured custom runtime path is the empty string, and is otherwise
\* present and equal to the configured path.
RuntimePathFollowsOption ==
    \A t \in Tasks :
        InCall(t) =>
            /\ ParametersOf(t).custom_java_path = <<>> <=> ConfiguredPath(t) = ""
            /\ ConfiguredPath(t) # "" =>
                   ParametersOf(t).custom_java_path = << ConfiguredPath(t) >>

\* C13 witness: a call configured with /usr/bin/java carries that path.
CustomRuntimeCarried ==
    \E t \in Tasks :
        /\ InCall(t)
        /\ ConfiguredPath(t) = "/usr/bin/java"
        /\ ParametersOf(t).custom_java_path = << "/usr/bin/java" >>

\* ------------------------------------------------------------ the guard

\* A run_client call is suspended at one of its two awaits.
Suspended(t) == pc[t] \in {"fetching", "launching"}

\* C14: in every state in which a run_client call is suspended (awaiting the
\* manifest or the prelauncher) no task holds the slot's mutex: the lock that
\* terminate and the run_client calls of other tasks take is free, and a
\* terminate call can run to its return at once.
GuardFreeWhileSuspended ==
    (\E t \in Tasks : Suspended(t)) =>
        /\ guard = None
        /\ Lock
        /\ ENABLED Terminate

\* C14 witness: while one launch is still in flight, a terminate call has
\* returned and a run_client call of another task has passed the test of the
\* slot.
CommandsRanDuringLaunch ==
    \E t, u \in Tasks :
        /\ pc[t] = "launching"
        /\ terminator_rx[t] = "signalled"
        /\ terminate_result = OK
        /\ pc[u] = "fetching"
        /\ guard = None

\* ------------------------------------------------------------ sender ownership

\* C15: whenever the launch of a task is in flight and no cancellation has
\* been signalled to it, the slot holds the sender of that launch's own
\* channel (so that terminate would signal that launch); the end of one
\* launch never removes or replaces the sender of another launch in flight.
SlotHoldsOwnSender ==
    \A t \in Tasks :
        (pc[t] = "launching" /\ terminator_rx[t] # "signalled") =>
            runner_instance = t

\* ------------------------------------------------------------ idempotence

\* A session that a terminate call has signalled is still in flight.
CancelledSessionRuns ==
    \E t \in Tasks : pc[t] = "launching" /\ terminator_rx[t] = "signalled"

\* C16: a session is signalled at most once, and a terminate call that
\* follows another one during the same session fires nothing, succeeds and
\* leaves the slot, the channels and the mutex as the first call left them.
TerminateIdempotent ==
    [][/\ \A t \in Tasks :
              terminator_rx[t] = "signalled" =>
                  terminator_rx'[t] \in {"signalled", "none"}
       /\ (CancelledSessionRuns /\ Terminated) =>
              /\ terminate_result' = OK
              /\ UNCHANGED <<runner_instance, terminator_rx, poisoned>>]_vars

\* ------------------------------------------------------------ manifest failure

\* The run_client call of t returns the manifest error in this step.
ManifestFailed(t) ==
    pc[t] = "fetching" /\ pc'[t] = "idle" /\ result'[t] = ErrManifest

\* No launch of another call than t's is active.
NoOtherLaunch(t) == \A u \in Tasks \ {t} : pc[u] = "idle"

\* C17: a run_client call whose manifest fetch fails returns without writing
\* the slot and without a channel or a prelauncher invocation of its own: the
\* slot, the channels and the mutex are as they were when the fetch failed;
\* hence, when no other launch is active, the slot is empty afterwards.
ManifestFailureLeavesIdle ==
    [][\A t \in Tasks :
           ManifestFailed(t) =>
               /\ UNCHANGED <<runner_instance, terminator_rx, poisoned>>
               /\ terminator_rx[t] = "none"
               /\ NoOtherLaunch(t) => runner_instance' = None]_vars

====
